---- MODULE Spec2Model ----
(***************************************************************************)
(* Model of the Monte Carlo Tree Search engine of src/source/              *)
(* cot-reflection.ts (classes DialogueState, MCTSNode, MCTS and the        *)
(* function mcts).                                                         *)
(*                                                                         *)
(* JavaScript runs one callback at a time: between two awaits a task runs  *)
(* atomically.  Each action below is one such atomic block of one          *)
(* simulation task of findBestResponse; the oracle (generateText) decides  *)
(* when, and with what reply, a suspended task resumes.                    *)
(*                                                                         *)
(* Numbers.  The code computes in IEEE doubles; the model computes the     *)
(* same expressions exactly, in scaled integers:                           *)
(*   - a sub-score is held in tenths (10 is 1.0),                          *)
(*   - an evaluation in hundredths (50 is 0.5),                            *)
(*   - a rollout value in units of 1/(100 * ValueUnit),                    *)
(*   - a prior as a fraction [num, den].                                   *)
(* NaN is the value the code obtains from arithmetic on an unparseable or  *)
(* missing number; it is absorbing, as in IEEE arithmetic.                 *)
(***************************************************************************)
EXTENDS Integers, Sequences, FiniteSets, Bags, TLC

\* ------------------------------------------------------------------ bounds
MaxSims == 2
MaxChildren == 2
MaxDepth == 2
MaxRollout == 1
\* numSimulations * maxChildren: the children one search can attach
MaxAttached == 4
\* numSimulations * (simulationDepth + 1): the times one search can reach
\* the head of the rollout loop
MaxSteps == 4

\* --------------------------------------------------------------- numbers
NaN == -1
Undefined == -2

IsNum(x) == x >= 0

RECURSIVE Pow(_, _)
Pow(b, k) == IF k = 0 THEN 1 ELSE b * Pow(b, k - 1)

RECURSIVE Fact(_)
Fact(n) == IF n <= 1 THEN 1 ELSE n * Fact(n - 1)

\* 0.95 = DiscountNum / DiscountDen
DiscountNum == 19
DiscountDen == 20

\* Math.max(1, Math.floor(Math.sqrt(depth + 1))) is 1 for depth 0..2 and
\* first reaches 2 at depth 3: a rollout needs WideDepth steps to draw among
\* two candidates.
WideDepth == 4

\* The longest rollout of any search of the model.
RolloutCap == IF MaxRollout > WideDepth THEN MaxRollout ELSE WideDepth

\* One hundredth of an evaluation, in value units: every discount
\* 0.95^k (k < RolloutCap) and every division by a step count <= RolloutCap
\* is exact.
ValueUnit == Pow(DiscountDen, RolloutCap) * Fact(RolloutCap)

Add(a, b) == IF IsNum(a) /\ IsNum(b) THEN a + b ELSE NaN

\* intermediateValue * 0.95 ** depth
Discounted(e, depth) ==
    IF IsNum(e)
    THEN e * Pow(DiscountNum, depth) * Pow(DiscountDen, RolloutCap - depth)
           * Fact(RolloutCap)
    ELSE NaN

\* value / (depth || 1)
Normalize(value, depth) ==
    IF IsNum(value) THEN value \div (IF depth = 0 THEN 1 ELSE depth) ELSE NaN

\* ---------------------------------------------------------------- strings
\* A query is a sequence of characters.
UpperCase == <<"A","B","C","D","E","F","G","H","I","J","K","L","M",
               "N","O","P","Q","R","S","T","U","V","W","X","Y","Z">>
LowerCase == <<"a","b","c","d","e","f","g","h","i","j","k","l","m",
               "n","o","p","q","r","s","t","u","v","w","x","y","z">>

ToLowerChar(c) ==
    IF \E i \in 1..Len(UpperCase) : UpperCase[i] = c
    THEN LowerCase[CHOOSE i \in 1..Len(UpperCase) : UpperCase[i] = c]
    ELSE c

ToLowerCase(s) == [i \in 1..Len(s) |-> ToLowerChar(s[i])]

Includes(s, sub) ==
    \E i \in 0..(Len(s) - Len(sub)) : SubSeq(s, i + 1, i + Len(sub)) = sub

Goodbye == <<"g","o","o","d","b","y","e">>
ThankYou == <<"t","h","a","n","k"," ","y","o","u">>

\* The prompts the model starts a search with.
Queries ==
    { <<"h","i">>,
      <<"o","k"," ","T","h","a","n","k"," ","Y","o","u">>,
      <<"G","o","o","d","b","y","e","!">> }

\* The texts the oracle can answer a generation request with.
Texts == {"A", "B"}

\* ---------------------------------------------------------- DialogueState
NoMetrics == <<>>

\* DialogueState.create(system, [], prompt)
CreateState(query) ==
    [history |-> <<>>, query |-> query, depth |-> 0, metrics |-> NoMetrics]

\* Mutant of WithNewMessage: the new state keeps the receiver's depth.
WithNewMessageSameDepth(state, role, content) ==
    [history |-> Append(state.history, [role |-> role, content |-> content]),
     query   |-> state.query,
     depth   |-> state.depth,
     metrics |-> state.metrics]

WithNewMessage(state, role, content) ==
    [history |-> Append(state.history, [role |-> role, content |-> content]),
     query   |-> state.query,
     depth   |-> state.depth + 1,
     metrics |-> state.metrics]

\* JSON.stringify({history, query, depth}): the three fields, in order.
Hash(state) == <<state.history, state.query, state.depth>>

GetLastResponse(state) ==
    IF Len(state.history) > 0
       /\ state.history[Len(state.history)].role = "assistant"
    THEN state.history[Len(state.history)].content
    ELSE "null"

\* --------------------------------------------------------------- MCTSNode
Root == 1
NoNode == 0

\* Mutant of NewNode: a node is created fully expanded.
NewNodeExpanded(state, parent, action) ==
    [state |-> state, parent |-> parent, action |-> action,
     children |-> <<>>, visits |-> 0, isFullyExpanded |-> TRUE,
     totalValue |-> 0, raveVisits |-> 0, raveValue |-> 0]

NewNode(state, parent, action) ==
    [state |-> state, parent |-> parent, action |-> action,
     children |-> <<>>, visits |-> 0, isFullyExpanded |-> FALSE,
     totalValue |-> 0, raveVisits |-> 0, raveValue |-> 0]

\* Mutant of AddVisit: assigns the value instead of accumulating it.
AddVisitAssign(node, value) ==
    [node EXCEPT !.visits = @ + 1, !.totalValue = value]

AddVisit(node, value) ==
    [node EXCEPT !.visits = @ + 1, !.totalValue = Add(@, value)]

\* Mutant of AddRaveData: counts the visit, drops the value.
AddRaveDataVisitOnly(node, value) ==
    [node EXCEPT !.raveVisits = @ + 1]

AddRaveData(node, value) ==
    [node EXCEPT !.raveVisits = @ + 1, !.raveValue = Add(@, value)]

\* floor(sqrt(n))
RECURSIVE SqrtFrom(_, _)
SqrtFrom(n, r) == IF (r + 1) * (r + 1) > n THEN r ELSE SqrtFrom(n, r + 1)

FloorSqrt(n) == SqrtFrom(n, 0)

\* Scores of the selection formula are held in thousandths.
Milli == 1000

\* sqrt(n) in thousandths, rounded down
RECURSIVE SqrtBisect(_, _, _)
SqrtBisect(n, lo, hi) ==
    IF hi - lo <= 1 THEN lo
    ELSE LET mid == (lo + hi) \div 2
         IN  IF mid * mid <= n THEN SqrtBisect(n, mid, hi)
                               ELSE SqrtBisect(n, lo, mid)

SqrtMilli(n) == SqrtBisect(n * Milli * Milli, 0, (n + 1) * Milli)

\* A prior is a fraction; a slot of the priors array past its end is undefined.
UndefinedPrior == [num |-> 0, den |-> 0]

\* total / count in thousandths (0 when count is 0)
Average(total, count) ==
    IF count = 0 THEN 0
    ELSE IF IsNum(total) THEN total \div (count * (ValueUnit \div 10))
    ELSE NaN

GetAverageValue(node) == Average(node.totalValue, node.visits)

GetRaveValue(node) == Average(node.raveValue, node.raveVisits)

\* The exploration constant of getPUCTScore, C = 1.5 = ExploreNum / ExploreDen.
ExploreNum == 3
ExploreDen == 2

\* Mutant of Exploration: the child's visits do not enter the term.
ExplorationFlat(node, totalParentVisits, prior) ==
    (ExploreNum * prior.num * SqrtMilli(totalParentVisits))
        \div (ExploreDen * prior.den)

Exploration(node, totalParentVisits, prior) ==
    (ExploreNum * prior.num * SqrtMilli(totalParentVisits))
        \div (ExploreDen * prior.den * (1 + node.visits))

\* visits + raveVisits + 4 * prior * parentVisits, times prior.den
BetaDenominator(node, totalParentVisits, prior) ==
    (node.visits + node.raveVisits) * prior.den
        + 4 * prior.num * totalParentVisits

\* beta in thousandths; 0 / 0 is NaN
Beta(node, totalParentVisits, prior) ==
    IF BetaDenominator(node, totalParentVisits, prior) = 0 THEN NaN
    ELSE (Milli * node.visits * prior.den)
            \div BetaDenominator(node, totalParentVisits, prior)

GetPUCTScore(node, totalParentVisits, prior) ==
    LET exploitation == GetAverageValue(node)
        beta == Beta(node, totalParentVisits, prior)
        raveComponent == GetRaveValue(node)
    IN  IF IsNum(beta) /\ IsNum(exploitation) /\ IsNum(raveComponent)
        THEN (beta * exploitation + (Milli - beta) * raveComponent) \div Milli
               + Exploration(node, totalParentVisits, prior)
        ELSE NaN

\* a > b on numbers; false when either is NaN
Greater(a, b) == IsNum(a) /\ IsNum(b) /\ a > b

\* ------------------------------------------------------------------- MCTS
Null == "null"

\* Mutant of IsTerminal: the query is searched as it is written.
IsTerminalCaseSensitive(state, maxDepth) ==
    \/ state.depth >= maxDepth
    \/ Includes(state.query, Goodbye)
    \/ Includes(state.query, ThankYou)

\* x || ""
OrEmpty(a) == IF a = Null THEN "" ELSE a

IsTerminal(state, maxDepth) ==
    \/ state.depth >= maxDepth
    \/ Includes(ToLowerCase(state.query), Goodbye)
    \/ Includes(ToLowerCase(state.query), ThankYou)

\* this.actionPriors.get(action || "") || 1.0 / current.children.length
PriorOf(priors, action, childCount) ==
    IF OrEmpty(action) \in DOMAIN priors /\ priors[OrEmpty(action)].num # 0
    THEN priors[OrEmpty(action)]
    ELSE [num |-> 1, den |-> childCount]

\* current.children.reduce((best, child) => score(child) > score(best) ? child : best)
RECURSIVE ReducePUCT(_, _, _, _, _)
ReducePUCT(ns, priors, current, i, best) ==
    LET kids == ns[current].children
    IN  IF i > Len(kids) THEN best
        ELSE LET child == kids[i]
                 total == ns[current].visits
                 better ==
                     Greater(
                       GetPUCTScore(ns[child], total,
                                    PriorOf(priors, ns[child].action, Len(kids))),
                       GetPUCTScore(ns[best], total,
                                    PriorOf(priors, ns[best].action, Len(kids))))
             IN  ReducePUCT(ns, priors, current, i + 1,
                            IF better THEN child ELSE best)

\* Mutant of SelectLoop: marks the node before testing the mark.
RECURSIVE SelectLoopMarkFirst(_, _, _, _, _, _)
SelectLoopMarkFirst(ns, priors, maxDepth, current, path, marks) ==
    IF ~(~IsTerminal(ns[current].state, maxDepth) /\ ns[current].isFullyExpanded)
    THEN [path |-> Append(path, current), marks |-> marks, ended |-> TRUE]
    ELSE IF Len(ns[current].children) = 0
    THEN [path |-> Append(Append(path, current), current),
          marks |-> marks, ended |-> TRUE]
    ELSE [path |-> Append(path, current),
          marks |-> marks \cup {Hash(ns[current].state)}, ended |-> FALSE]

\* The while loop of select.  ended is FALSE when the loop takes its
\* `continue` branch: nothing the loop condition reads changes after it, so
\* the loop then pushes the same node for ever.
RECURSIVE SelectLoop(_, _, _, _, _, _)
SelectLoop(ns, priors, maxDepth, current, path, marks) ==
    IF ~(~IsTerminal(ns[current].state, maxDepth) /\ ns[current].isFullyExpanded)
    THEN [path |-> Append(path, current), marks |-> marks, ended |-> TRUE]
    ELSE IF Len(ns[current].children) = 0
    THEN [path |-> Append(Append(path, current), current),
          marks |-> marks, ended |-> TRUE]
    ELSE IF Hash(ns[current].state) \in marks
    THEN [path |-> Append(path, current), marks |-> marks, ended |-> FALSE]
    ELSE SelectLoop(ns, priors, maxDepth,
                    ReducePUCT(ns, priors, current, 2, ns[current].children[1]),
                    Append(path, current),
                    marks \cup {Hash(ns[current].state)})

Select(ns, priors, maxDepth, node, marks) ==
    SelectLoop(ns, priors, maxDepth, node, <<>>, marks)

\* ----------------------------------------------------------------- oracle
\* generateText either resolves with a text or rejects (transport failure).
\* A reply to a generation request carries the text; a reply to a rating
\* request carries the numbers Number.parseFloat finds on its lines (NaN
\* lines already dropped by the filter); a reply to an evaluation request
\* carries what parseFloat makes of each comma-separated piece.
Threw == [ok |-> FALSE, text |-> "", nums |-> <<>>]
TextReply(text) == [ok |-> TRUE, text |-> text, nums |-> <<>>]
NumbersReply(nums) == [ok |-> TRUE, text |-> "", nums |-> nums]

\* The oracles a search is run against:
\*   free           any reply to any request
\*   proposeFails   every generation request fails
\*   evaluateFails  generation and rating succeed, every evaluation request
\*                  fails (transport failure or a reply that does not parse)
\*   stubAB         the stub of the concrete scenario
\* Spec draws the oracle from OracleModes; evaluateFails is the oracle of
\* SpecDegraded, stubAB that of SpecScenario and SpecDeep.
OracleModes == {"free", "proposeFails"}

\* Replies to the i-th generation request (i = 1..maxChildren) of one
\* generateActions call.
ProposeReplies(mode, i) ==
    CASE mode = "proposeFails" -> {Threw}
      [] mode = "evaluateFails" -> {TextReply(a) : a \in Texts}
      [] mode = "stubAB" -> {TextReply(IF i = 1 THEN "A" ELSE "B")}
      [] OTHER -> {Threw} \cup {TextReply(a) : a \in Texts}

ProposeRuns(mode, count) ==
    {run \in [1..count -> {Threw} \cup {TextReply(a) : a \in Texts}] :
        \A i \in 1..count : run[i] \in ProposeReplies(mode, i)}

\* Replies to the rating request for n candidates.
PriorReplies(mode, n) ==
    CASE mode = "stubAB" -> {NumbersReply([i \in 1..n |-> 5])}
      [] mode = "evaluateFails" ->
            {NumbersReply([i \in 1..n |-> IF i = 1 THEN 10 ELSE 0])}
      [] OTHER ->
            {Threw, NumbersReply(<<>>),
             NumbersReply([i \in 1..n |-> IF i = 1 THEN 10 ELSE 0])}

\* Replies to the evaluation request for a state.
EvaluateReplies(mode, state) ==
    CASE mode = "stubAB" ->
            {NumbersReply(IF GetLastResponse(state) = "A"
                          THEN <<10, 10, 10>> ELSE <<0, 0, 0>>)}
      [] mode = "evaluateFails" -> {Threw, NumbersReply(<<NaN>>)}
      [] OTHER ->
            {Threw, NumbersReply(<<10, 10, 10>>), NumbersReply(<<12, -3, 5>>),
             NumbersReply(<<NaN>>)}

\* --------------------------------------------------- oracle-facing methods
\* The result of an async method: threw is TRUE when its promise rejects.
Returned(value) == [threw |-> FALSE, value |-> value]
Rejected == [threw |-> TRUE, value |-> <<>>]

\* Mutant of GenerateActions: no catch block, a failed request rejects.
GenerateActionsNoCatch(run) ==
    IF \E i \in 1..Len(run) : ~run[i].ok
    THEN Rejected
    ELSE Returned([i \in 1..Len(run) |-> run[i].text])

\* Mutant of GenerateActions: a failed request contributes an empty text.
GenerateActionsKeepFailed(run) ==
    Returned([i \in 1..Len(run) |-> run[i].text])

\* generateActions: the completions, or [] from the catch block as soon as
\* one request fails.
GenerateActions(run) ==
    IF \E i \in 1..Len(run) : ~run[i].ok
    THEN Returned(<<>>)
    ELSE Returned([i \in 1..Len(run) |-> run[i].text])

\* Math.exp of a rating, in thousandths
Exp(score) ==
    CASE score = 0 -> 1000
      [] score = 5 -> 1649
      [] score = 10 -> 2718
      [] OTHER -> 1000

RECURSIVE SumSeq(_)
SumSeq(q) == IF q = <<>> THEN 0 ELSE Head(q) + SumSeq(Tail(q))

\* calculateActionPriors: softmax of the parsed ratings (one entry per parsed
\* rating), or the uniform distribution from the catch block.
CalculateActionPriors(reply, actions) ==
    IF ~reply.ok
    THEN Returned([i \in 1..Len(actions) |-> [num |-> 1, den |-> Len(actions)]])
    ELSE LET expScores == [i \in 1..Len(reply.nums) |-> Exp(reply.nums[i])]
         IN  Returned([i \in 1..Len(expScores) |->
                          [num |-> expScores[i], den |-> SumSeq(expScores)]])

\* Math.max(0, Math.min(x, 1)) on a parsed piece; a missing piece is undefined
Clamp(x) == IF x = NaN THEN NaN ELSE IF x > 10 THEN 10 ELSE IF x < 0 THEN 0 ELSE x

Piece(nums, i) == IF i <= Len(nums) THEN Clamp(nums[i]) ELSE Undefined

\* coherence * 0.3 + relevance * 0.4 + engagement * 0.3, in hundredths
Weighted(m) ==
    IF IsNum(m[1]) /\ IsNum(m[2]) /\ IsNum(m[3])
    THEN m[1] * 3 + m[2] * 4 + m[3] * 3
    ELSE NaN

\* The neutral score of evaluate's catch block, 0.5
Neutral == 50

\* evaluate: value is <<score, metrics written to state.metrics>>; the catch
\* block returns 0.5 and leaves the state alone.
Evaluate(reply, state) ==
    IF ~reply.ok
    THEN Returned(<<Neutral, state.metrics>>)
    ELSE LET m == <<Piece(reply.nums, 1), Piece(reply.nums, 2),
                    Piece(reply.nums, 3)>>
         IN  Returned(<<Weighted(m), m>>)

\* ------------------------------------------------------------------ state
VARIABLES
    cfg,          \* numSimulations, simulationDepth, options, the prompt
    oracle,       \* the oracle the search runs against (an OracleModes value)
    main,         \* findBestResponse: "idle", "running", "hung", "returned", "raised"
    nodes,        \* the MCTSNode objects, by creation order; nodes[Root] is root
    table,        \* transpositionTable: state hash -> node
    actionPriors, \* actionPriors: action text -> prior
    inProgress,   \* the inProgress set of findBestResponse
    tasks,        \* the simulation tasks (a bag: tasks carry no identity)
    result,       \* what findBestResponse returned
    backprops,    \* history: the (path, value) of every backpropagate call
    expansions    \* history: the node, and the number of children attached,
                  \* of every expand call that marked its node fully expanded

vars == <<cfg, oracle, main, nodes, table, actionPriors, inProgress, tasks,
          result, backprops, expansions>>

NoState == [history |-> <<>>, query |-> <<>>, depth |-> 0, metrics |-> NoMetrics]

\* A simulation task: the locals of the async arrow function of
\* findBestResponse and of the method it is suspended in.
\*   pc: "selected"     awaiting select's promise
\*       "expandGen"    expand, awaiting generateActions
\*       "expandPriors" expand, awaiting calculateActionPriors
\*       "expanded"     awaiting expand's promise, which holds node
\*       "rolloutGen"   simulate, awaiting generateActions
\*       "rolloutEval"  simulate, awaiting the reply evaluate asked for
\*       "rolloutScored" simulate, awaiting evaluate's promise, which
\*                      holds score
\*       "backprop"     awaiting simulate's promise
\*       "done" / "rejected"
Task(pc, path) ==
    [pc |-> pc, path |-> path, actions |-> <<>>, node |-> NoNode,
     cur |-> NoState, depth |-> 0, value |-> 0, score |-> 0, evals |-> <<>>]

DoneTask == Task("done", <<>>)
RejectedTask == Task("rejected", <<>>)

Configs ==
    {c \in [numSimulations : 0..MaxSims, simulationDepth : 0..MaxRollout,
            maxDepth : 0..MaxDepth, maxChildren : 0..MaxChildren,
            useRAVE : BOOLEAN, query : Queries] :
        /\ c.numSimulations * c.maxChildren <= MaxAttached
        /\ c.numSimulations * (c.simulationDepth + 1) <= MaxSteps}

\* new MCTS(model, simulationDepth, numSimulations, mctsOptions)
Constructed(c, o) ==
    /\ cfg = c
    /\ oracle = o
    /\ main = "idle"
    /\ nodes = <<>>
    /\ table = <<>>
    /\ actionPriors = <<>>
    /\ inProgress = {}
    /\ tasks = EmptyBag
    /\ result = ""
    /\ backprops = EmptyBag
    /\ expansions = EmptyBag

Init == \E c \in Configs, o \in OracleModes : Constructed(c, o)

Last(q) == q[Len(q)]

Put(f, k, v) == [x \in DOMAIN f \cup {k} |-> IF x = k THEN v ELSE f[x]]

Replace(t, u) == (tasks (-) SetToBag({t})) (+) SetToBag({u})

Running(t) == main \in {"running", "raised"} /\ t \in BagToSet(tasks)

\* The numSimulations calls of select that findBestResponse makes in a row
\* (select has no await: each call runs to its end when it is made).
RECURSIVE RunSelects(_, _, _, _, _)
RunSelects(ns, maxDepth, count, marks, acc) ==
    IF count = 0 THEN [marks |-> marks, tasks |-> acc, ended |-> TRUE]
    ELSE LET sel == Select(ns, <<>>, maxDepth, Root, marks)
         IN  IF ~sel.ended
             THEN [marks |-> sel.marks, tasks |-> acc, ended |-> FALSE]
             ELSE RunSelects(ns, maxDepth, count - 1, sel.marks,
                             acc (+) SetToBag({Task("selected", sel.path)}))

\* findBestResponse up to its await of Promise.all
Start ==
    /\ main = "idle"
    /\ LET root == NewNode(CreateState(cfg.query), NoNode, Null)
           sels == RunSelects(<<root>>, cfg.maxDepth, cfg.numSimulations,
                              {}, EmptyBag)
       IN  /\ nodes' = <<root>>
           /\ table' = Put(table, Hash(root.state), Root)
           /\ inProgress' = sels.marks
           /\ tasks' = sels.tasks
           /\ main' = IF sels.ended THEN "running" ELSE "hung"
    /\ UNCHANGED <<cfg, oracle, actionPriors, result, backprops, expansions>>

\* simulate returns value / (depth || 1); its other locals are dead.
Return(t) ==
    [t EXCEPT !.pc = "backprop", !.value = Normalize(t.value, t.depth),
              !.cur = NoState, !.depth = 0, !.actions = <<>>]

\* The head of simulate's while loop: ask for the next candidates, or leave
\* the loop and return the normalized value.
LoopHead(t) ==
    IF ~IsTerminal(t.cur, cfg.maxDepth) /\ t.depth < cfg.simulationDepth
    THEN [t EXCEPT !.pc = "rolloutGen"]
    ELSE Return(t)

\* simulate(node) up to its first await
Simulate(t, ns, node) ==
    LoopHead([t EXCEPT !.node = node, !.cur = ns[node].state, !.depth = 0,
                       !.value = 0, !.actions = <<>>])

\* After `await this.select`: a terminal leaf ends the task; otherwise
\* expand(leaf) runs up to its await of generateActions.
AfterSelect ==
    \E t \in BagToSet(tasks) :
        /\ Running(t)
        /\ t.pc = "selected"
        /\ tasks' = Replace(t,
              IF IsTerminal(nodes[Last(t.path)].state, cfg.maxDepth)
              THEN DoneTask
              ELSE [t EXCEPT !.pc = "expandGen"])
        /\ UNCHANGED <<cfg, oracle, main, nodes, table, actionPriors,
                       inProgress, result, backprops, expansions>>

\* Mutant of AttachChild: a new entry replaces the table instead of joining it.
AttachChildPrune(s, node, action, prior) ==
    LET newState == WithNewMessage(s.nodes[node].state, "assistant", action)
        stateHash == Hash(newState)
        found == stateHash \in DOMAIN s.table
        childNode == IF found THEN s.table[stateHash] ELSE Len(s.nodes) + 1
        ns == IF found THEN s.nodes
              ELSE Append(s.nodes, NewNode(newState, node, action))
    IN  [nodes  |-> [ns EXCEPT ![node].children = Append(@, childNode)],
         table  |-> IF found THEN s.table
                    ELSE [h \in {stateHash} |-> childNode],
         priors |-> Put(s.priors, action, prior)]

\* Mutant of AttachChild: a node found in the table is counted as visited.
AttachChildVisitHit(s, node, action, prior) ==
    LET newState == WithNewMessage(s.nodes[node].state, "assistant", action)
        stateHash == Hash(newState)
        found == stateHash \in DOMAIN s.table
        childNode == IF found THEN s.table[stateHash] ELSE Len(s.nodes) + 1
        ns == IF found THEN [s.nodes EXCEPT ![childNode].visits = @ + 1]
              ELSE Append(s.nodes, NewNode(newState, node, action))
    IN  [nodes  |-> [ns EXCEPT ![node].children = Append(@, childNode)],
         table  |-> IF found THEN s.table ELSE Put(s.table, stateHash, childNode),
         priors |-> Put(s.priors, action, prior)]

\* Mutant of AttachChild: no transposition lookup, always a new node.
AttachChildNoLookup(s, node, action, prior) ==
    LET newState == WithNewMessage(s.nodes[node].state, "assistant", action)
        childNode == Len(s.nodes) + 1
    IN  [nodes  |-> [Append(s.nodes, NewNode(newState, node, action))
                        EXCEPT ![node].children = Append(@, childNode)],
         table  |-> Put(s.table, Hash(newState), childNode),
         priors |-> Put(s.priors, action, prior)]

\* One iteration of expand's for loop over the actions.
AttachChild(s, node, action, prior) ==
    LET newState == WithNewMessage(s.nodes[node].state, "assistant", action)
        stateHash == Hash(newState)
        found == stateHash \in DOMAIN s.table
        childNode == IF found THEN s.table[stateHash] ELSE Len(s.nodes) + 1
        ns == IF found THEN s.nodes
              ELSE Append(s.nodes, NewNode(newState, node, action))
    IN  [nodes  |-> [ns EXCEPT ![node].children = Append(@, childNode)],
         table  |-> IF found THEN s.table ELSE Put(s.table, stateHash, childNode),
         priors |-> Put(s.priors, action, prior)]

RECURSIVE AttachAll(_, _, _, _, _)
AttachAll(s, node, actions, priors, i) ==
    IF i > Len(actions) THEN s
    ELSE AttachAll(
           AttachChild(s, node, actions[i],
                       IF i <= Len(priors) THEN priors[i] ELSE UndefinedPrior),
           node, actions, priors, i + 1)

\* expand resumes with the candidates: none marks the node fully expanded
\* and returns it; some sends the rating request.
ExpandActions ==
    \E t \in BagToSet(tasks) :
        /\ Running(t)
        /\ t.pc = "expandGen"
        /\ \E run \in ProposeRuns(oracle, cfg.maxChildren) :
             LET leaf == Last(t.path)
                 got == GenerateActions(run)
                 marked == [nodes EXCEPT ![leaf].isFullyExpanded = TRUE]
             IN  IF got.threw
                 THEN /\ tasks' = Replace(t, RejectedTask)
                      /\ UNCHANGED <<nodes, expansions>>
                 ELSE IF Len(got.value) = 0
                 THEN /\ nodes' = marked
                      /\ expansions' = expansions (+)
                            SetToBag({[node |-> leaf, attached |-> 0]})
                      /\ tasks' = Replace(t, [t EXCEPT !.pc = "expanded",
                                                       !.node = leaf])
                 ELSE /\ tasks' = Replace(t, [t EXCEPT !.pc = "expandPriors",
                                                       !.actions = got.value])
                      /\ UNCHANGED <<nodes, expansions>>
        /\ UNCHANGED <<cfg, oracle, main, table, actionPriors, inProgress,
                       result, backprops>>

\* expand resumes with the priors: attaches a child per candidate, marks the
\* node fully expanded and returns its first child.
\* (got, s and marked are bound by \E over a singleton: each is computed once.)
ExpandAttach ==
    \E t \in BagToSet(tasks) :
        /\ Running(t)
        /\ t.pc = "expandPriors"
        /\ \E reply \in PriorReplies(oracle, Len(t.actions)) :
           \E got \in {CalculateActionPriors(reply, t.actions)} :
           \E s \in {AttachAll([nodes |-> nodes, table |-> table,
                                priors |-> actionPriors],
                               Last(t.path), t.actions, got.value, 1)} :
           \E marked \in {[s.nodes EXCEPT ![Last(t.path)].isFullyExpanded = TRUE]} :
                 IF got.threw
                 THEN /\ tasks' = Replace(t, RejectedTask)
                      /\ UNCHANGED <<nodes, table, actionPriors, expansions>>
                 ELSE /\ nodes' = marked
                      /\ table' = s.table
                      /\ actionPriors' = s.priors
                      /\ expansions' = expansions (+)
                            SetToBag({[node |-> Last(t.path),
                                       attached |-> Len(t.actions)]})
                      /\ tasks' = Replace(t,
                            [t EXCEPT !.pc = "expanded", !.actions = <<>>,
                                      !.node = marked[Last(t.path)].children[1]])
        /\ UNCHANGED <<cfg, oracle, main, inProgress, result, backprops>>

\* After `await this.expand`: simulate(expandedNode) runs up to its first
\* await.
AfterExpand ==
    \E t \in BagToSet(tasks) :
        /\ Running(t)
        /\ t.pc = "expanded"
        /\ tasks' = Replace(t, Simulate(t, nodes, t.node))
        /\ UNCHANGED <<cfg, oracle, main, nodes, table, actionPriors,
                       inProgress, result, backprops, expansions>>

\* Mutant of Widened: the square root is rounded up.
WidenedCeil(actions, depth) ==
    LET numActions == FloorSqrt(depth) + 1
    IN  SubSeq(actions, 1, IF numActions < Len(actions) THEN numActions
                                                        ELSE Len(actions))

\* actions.slice(0, Math.max(1, Math.floor(Math.sqrt(depth + 1))))
Widened(actions, depth) ==
    LET numActions == IF FloorSqrt(depth + 1) > 1 THEN FloorSqrt(depth + 1) ELSE 1
    IN  SubSeq(actions, 1, IF numActions < Len(actions) THEN numActions
                                                        ELSE Len(actions))

\* Mutant of RolloutStep: no break on an empty candidate list.
RolloutStepNoBreak(t, actions) ==
    IF Len(actions) = 0
    THEN {[t EXCEPT !.pc = "rolloutEval",
                    !.cur = WithNewMessage(t.cur, "assistant", "")]}
    ELSE {[t EXCEPT !.pc = "rolloutEval",
                    !.cur = WithNewMessage(t.cur, "assistant",
                              Widened(actions, t.depth)[k])] :
            k \in 1..Len(Widened(actions, t.depth))}

\* The body of simulate's loop from the candidates to the call of evaluate:
\* `if (actions.length === 0) break`; otherwise one of the widened prefix is
\* drawn and the state extended. The tasks the rollout can continue as.
RolloutStep(t, actions) ==
    IF Len(actions) = 0
    THEN {Return(t)}
    ELSE {[t EXCEPT !.pc = "rolloutEval",
                    !.cur = WithNewMessage(t.cur, "assistant",
                              Widened(actions, t.depth)[k])] :
            k \in 1..Len(Widened(actions, t.depth))}

\* simulate resumes with the candidates: none leaves the loop; otherwise one
\* of the widened prefix is drawn, the state extended, evaluate called.
RolloutActions ==
    \E t \in BagToSet(tasks) :
        /\ Running(t)
        /\ t.pc = "rolloutGen"
        /\ \E run \in ProposeRuns(oracle, cfg.maxChildren) :
             LET got == GenerateActions(run)
             IN  IF got.threw
                 THEN tasks' = Replace(t, RejectedTask)
                 ELSE \E u \in RolloutStep(t, got.value) :
                         tasks' = Replace(t, u)
        /\ UNCHANGED <<cfg, oracle, main, nodes, table, actionPriors,
                       inProgress, result, backprops, expansions>>

\* evaluate resumes with the reply: writes the metrics to the state and
\* returns the score.
RolloutEvaluate ==
    \E t \in BagToSet(tasks) :
        /\ Running(t)
        /\ t.pc = "rolloutEval"
        /\ \E reply \in EvaluateReplies(oracle, t.cur) :
             LET got == Evaluate(reply, t.cur)
             IN  IF got.threw
                 THEN tasks' = Replace(t, RejectedTask)
                 ELSE tasks' = Replace(t,
                        [t EXCEPT !.pc = "rolloutScored",
                                  !.cur.metrics = got.value[2],
                                  !.score = got.value[1]])
        /\ UNCHANGED <<cfg, oracle, main, nodes, table, actionPriors,
                       inProgress, result, backprops, expansions>>

\* simulate resumes with the score: accumulates it, discounted, and goes
\* round the loop.
RolloutAccumulate ==
    \E t \in BagToSet(tasks) :
        /\ Running(t)
        /\ t.pc = "rolloutScored"
        /\ tasks' = Replace(t,
              LoopHead([t EXCEPT
                 !.value = Add(@, Discounted(t.score, t.depth)),
                 !.evals = Append(@, t.score),
                 !.score = 0,
                 !.depth = @ + 1]))
        /\ UNCHANGED <<cfg, oracle, main, nodes, table, actionPriors,
                       inProgress, result, backprops, expansions>>

\* for (const node of path.reverse()) { addVisit; if (useRAVE) addRaveData }
RECURSIVE BackpropagatePath(_, _, _, _, _)
BackpropagatePath(ns, path, value, useRAVE, i) ==
    IF i = 0 THEN ns
    ELSE LET visited == AddVisit(ns[path[i]], value)
             updated == IF useRAVE THEN AddRaveData(visited, value) ELSE visited
         IN  BackpropagatePath([ns EXCEPT ![path[i]] = updated],
                               path, value, useRAVE, i - 1)

\* After `await this.simulate`: backpropagate(path, value); the task ends.
Backpropagate ==
    \E t \in BagToSet(tasks) :
        /\ Running(t)
        /\ t.pc = "backprop"
        /\ nodes' = BackpropagatePath(nodes, t.path, t.value, cfg.useRAVE,
                                      Len(t.path))
        /\ backprops' = backprops (+)
              SetToBag({[path |-> t.path, value |-> t.value, evals |-> t.evals]})
        /\ tasks' = Replace(t, DoneTask)
        /\ UNCHANGED <<cfg, oracle, main, table, actionPriors, inProgress,
                       result, expansions>>

\* Mutant of ReduceVisits: >= instead of >, the latest of equals wins.
RECURSIVE ReduceVisitsLast(_, _, _, _)
ReduceVisitsLast(ns, kids, i, best) ==
    IF i > Len(kids) THEN best
    ELSE ReduceVisitsLast(ns, kids, i + 1,
                          IF ns[kids[i]].visits >= ns[best].visits THEN kids[i] ELSE best)

\* root.children.reduce((best, child) => child.visits > best.visits ? child : best)
RECURSIVE ReduceVisits(_, _, _, _)
ReduceVisits(ns, kids, i, best) ==
    IF i > Len(kids) THEN best
    ELSE ReduceVisits(ns, kids, i + 1,
                      IF ns[kids[i]].visits > ns[best].visits THEN kids[i] ELSE best)

\* The lines of findBestResponse after Promise.all
BestResponse(ns) ==
    IF Len(ns[Root].children) = 0 THEN ""
    ELSE OrEmpty(ns[ReduceVisits(ns, ns[Root].children, 2,
                                 ns[Root].children[1])].action)

\* Promise.all settles: it rejects as soon as one task has, and resolves once
\* every task is done, after which findBestResponse returns.
Finish ==
    /\ main = "running"
    /\ \/ \E t \in BagToSet(tasks) : t.pc = "rejected"
       \/ \A t \in BagToSet(tasks) : t.pc = "done"
    /\ IF \E t \in BagToSet(tasks) : t.pc = "rejected"
       THEN main' = "raised" /\ UNCHANGED result
       ELSE main' = "returned" /\ result' = BestResponse(nodes)
    /\ UNCHANGED <<cfg, oracle, nodes, table, actionPriors, inProgress, tasks,
                   backprops, expansions>>

Next ==
    \/ Start
    \/ AfterSelect
    \/ ExpandActions
    \/ ExpandAttach
    \/ AfterExpand
    \/ RolloutActions
    \/ RolloutEvaluate
    \/ RolloutAccumulate
    \/ Backpropagate
    \/ Finish

Spec == Init /\ [][Next]_vars

\* A search against an oracle whose evaluations all fail.
InitDegraded == \E c \in Configs : Constructed(c, "evaluateFails")

SpecDegraded == InitDegraded /\ [][Next]_vars

\* The concrete scenario: maxDepth = 1, maxChildren = 2, numSimulations = 20,
\* the stub oracle proposing ["A", "B"] with equal ratings.  Every child is
\* terminal, so simulate returns without an oracle call and the actions of
\* the rollout are never enabled.
ScenarioConfigs ==
    {c \in [numSimulations : {20}, simulationDepth : 0..MaxRollout,
            maxDepth : {1}, maxChildren : {2},
            useRAVE : BOOLEAN, query : {<<"h","i">>}] : TRUE}

InitScenario == \E c \in ScenarioConfigs : Constructed(c, "stubAB")

NextScenario ==
    \/ Start
    \/ AfterSelect
    \/ ExpandActions
    \/ ExpandAttach
    \/ AfterExpand
    \/ Backpropagate
    \/ Finish

SpecScenario == InitScenario /\ [][NextScenario]_vars

\* Searches whose rollouts are long enough for progressive widening to offer
\* two candidates, against the deterministic stub: its reply is a function of
\* the request.
DeepConfigs ==
    {c \in [numSimulations : 1..MaxSims, simulationDepth : {WideDepth},
            maxDepth : {WideDepth, WideDepth + 1}, maxChildren : 1..MaxChildren,
            useRAVE : BOOLEAN,
            query : {<<"h","i">>, <<"G","o","o","d","b","y","e","!">>}] : TRUE}

InitDeep == \E c \in DeepConfigs : Constructed(c, "stubAB")

SpecDeep == InitDeep /\ [][Next]_vars

\* One simulation with rollouts of up to WideDepth steps, against the free
\* oracle (any request of a rollout can fail and any evaluation can be
\* unparseable) or the oracle whose every generation request fails.
RolloutConfigs ==
    {c \in [numSimulations : {1}, simulationDepth : 0..WideDepth,
            maxDepth : {MaxDepth, WideDepth + 1}, maxChildren : 1..MaxChildren,
            useRAVE : {TRUE}, query : {<<"h","i">>}] : TRUE}

InitRollout == \E c \in RolloutConfigs, o \in OracleModes : Constructed(c, o)

SpecRollout == InitRollout /\ [][Next]_vars

\* The values of options.explorationConstant a search is configured with,
\* in halves: 1.0, 1.5 (the default of mcts) and 2.0.
ExplorationConstants == {2, 3, 4}

\* Searches that differ in options.explorationConstant as well.
TunedConfigs ==
    {c @@ [explorationConstant |-> e] :
        c \in {d \in Configs : /\ d.query = <<"h","i">>
                                /\ d.maxDepth = MaxDepth
                                /\ d.maxChildren >= 2
                                /\ d.useRAVE},
        e \in ExplorationConstants}

InitTuned == \E c \in TunedConfigs : Constructed(c, "free")

SpecTuned == InitTuned /\ [][Next]_vars

\* ------------------------------------------------------------- properties
Started == main # "idle"

AllCompleted == Started /\ \A t \in BagToSet(tasks) : t.pc = "done"

NodeIds == 1..Len(nodes)

OnPath(path, n) == \E i \in 1..Len(path) : path[i] = n

\* The backpropagate calls made so far whose path contains node n.
CallsThrough(n) == {b \in BagToSet(backprops) : OnPath(b.path, n)}

RECURSIVE CountCalls(_)
CountCalls(S) ==
    IF S = {} THEN 0
    ELSE LET b == CHOOSE x \in S : TRUE
         IN  CopiesIn(b, backprops) + CountCalls(S \ {b})

RECURSIVE SumCalls(_)
SumCalls(S) ==
    IF S = {} THEN 0
    ELSE LET b == CHOOSE x \in S : TRUE
         IN  IF IsNum(b.value)
             THEN Add(b.value * CopiesIn(b, backprops), SumCalls(S \ {b}))
             ELSE NaN

\* The expand calls so far that attached children to node n.
Attaching(n) == {e \in BagToSet(expansions) : e.node = n /\ e.attached > 0}

RECURSIVE CountExpansions(_)
CountExpansions(S) ==
    IF S = {} THEN 0
    ELSE LET e == CHOOSE x \in S : TRUE
         IN  CopiesIn(e, expansions) + CountExpansions(S \ {e})

RootTerminal == IsTerminal(CreateState(cfg.query), cfg.maxDepth)

\* C1: when findBestResponse returns, root's visit count equals
\* numSimulations, for every initial state (terminal ones included).
C1_VisitConservation ==
    main = "returned" => nodes[Root].visits = cfg.numSimulations

\* C2: for every node, at most one simulation goes through the sequence
\* "request candidates, attach children, set isFullyExpanded".
C2_ExpandedOnce ==
    Started => \A n \in NodeIds : CountExpansions(Attaching(n)) <= 1

\* C3: once all simulations have completed, every node's visit count is the
\* number of backpropagated paths containing it and its accumulated value is
\* the sum of the values of those paths.
C3_NoLostUpdate ==
    AllCompleted =>
        \A n \in NodeIds :
            /\ nodes[n].visits = CountCalls(CallsThrough(n))
            /\ nodes[n].totalValue = SumCalls(CallsThrough(n))

C3_Witness ==
    /\ main = "returned"
    /\ nodes[Root].visits = 2
    /\ \A b \in BagToSet(backprops) : b.value > 0
    /\ nodes[Root].totalValue > 0

\* C4: the search returns "" when root has no children, and otherwise the
\* action of the earliest-attached child among those of maximal visit count.
C4_ResultSelection ==
    main = "returned" =>
        LET kids == nodes[Root].children
        IN  IF Len(kids) = 0 THEN result = ""
            ELSE \E i \in 1..Len(kids) :
                    /\ result = nodes[kids[i]].action
                    /\ \A j \in 1..Len(kids) :
                          nodes[kids[j]].visits <= nodes[kids[i]].visits
                    /\ \A j \in 1..(i - 1) :
                          nodes[kids[j]].visits < nodes[kids[i]].visits

C4_Witness ==
    /\ main = "returned"
    /\ Len(nodes[Root].children) >= 2
    /\ nodes[Root].children[1] # nodes[Root].children[Len(nodes[Root].children)]
    /\ result = "B"

\* C5: in the concrete scenario the child for "A" ends with strictly more
\* visits than the child for "B", and the search returns "A".
C5_Scenario ==
    (main = "returned" /\ oracle = "stubAB" /\ cfg.numSimulations = 20) =>
        /\ result = "A"
        /\ \E a, b \in NodeIds :
              /\ nodes[a].parent = Root /\ nodes[a].action = "A"
              /\ nodes[b].parent = Root /\ nodes[b].action = "B"
              /\ nodes[a].visits > nodes[b].visits

\* The call select(root, inProgress) made in the current state.
SelectNow == Select(nodes, actionPriors, cfg.maxDepth, Root, inProgress)

RECURSIVE MaxOf(_)
MaxOf(S) ==
    IF S = {} THEN 0
    ELSE LET x == CHOOSE y \in S : TRUE
             m == MaxOf(S \ {x})
         IN  IF x > m THEN x ELSE m

TreeDepth == MaxOf({nodes[n].state.depth : n \in NodeIds})

\* How far a task is through its simulation.
StageRank(t) ==
    CASE t.pc = "selected" -> 0
      [] t.pc = "expandGen" -> 1
      [] t.pc = "expandPriors" -> 2
      [] t.pc = "expanded" -> 3
      [] t.pc = "rolloutGen" -> 4 + 3 * t.depth
      [] t.pc = "rolloutEval" -> 5 + 3 * t.depth
      [] t.pc = "rolloutScored" -> 6 + 3 * t.depth
      [] t.pc = "backprop" -> 4 + 3 * cfg.simulationDepth
      [] OTHER -> 5 + 3 * cfg.simulationDepth

RECURSIVE RankOf(_)
RankOf(S) ==
    IF S = {} THEN 0
    ELSE LET t == CHOOSE x \in S : TRUE
         IN  StageRank(t) * CopiesIn(t, tasks) + RankOf(S \ {t})

\* How far the search is: bounded by 2 + numSimulations * (5 + 3 * simulationDepth).
Rank ==
    RankOf(BagToSet(tasks))
      + (CASE main = "idle" -> 0 [] main = "returned" -> 2 [] OTHER -> 1)

\* ENABLED Next, one disjunct of Next at a time.
CanStep ==
    \/ ENABLED Finish
    \/ ENABLED Backpropagate
    \/ ENABLED AfterSelect
    \/ ENABLED AfterExpand
    \/ ENABLED RolloutAccumulate
    \/ ENABLED Start
    \/ ENABLED RolloutEvaluate
    \/ ENABLED RolloutActions
    \/ ENABLED ExpandActions
    \/ ENABLED ExpandAttach

\* C6: in every state of a search a call of select ends, after at most
\* (tree depth) descents, the selects of findBestResponse included; and the
\* search returns when every oracle call does: until it has returned some
\* step can be taken (a task can resume, or Promise.all can settle), and
\* every step brings the search strictly nearer to its end.
C6_SearchReturns ==
    /\ [](main # "hung")
    /\ [](Started => /\ SelectNow.ended
                     /\ Cardinality(SelectNow.marks \ inProgress) <= TreeDepth)
    /\ [](main = "returned" \/ CanStep)
    /\ [][Rank' > Rank]_vars

C6_Witness ==
    /\ main = "returned"
    /\ cfg.numSimulations = 2
    /\ Len(nodes[Root].children) >= 2
    /\ Len(SelectNow.path) = 2
    /\ SelectNow.path[2] # nodes[Root].children[1]

\* C7: no failing oracle call makes the search raise or ends a task early:
\* every simulation of a non-terminal root performs its backpropagation.
C7_FailureIsolation ==
    /\ main # "raised"
    /\ \A t \in BagToSet(tasks) : t.pc # "rejected"
    /\ (AllCompleted /\ ~RootTerminal) =>
          BagCardinality(backprops) = cfg.numSimulations

\* One of two simulations had its generation request fail (it attached
\* nothing), the other attached its children; both backpropagated.
C7_Witness ==
    /\ main = "returned"
    /\ cfg.numSimulations = 2
    /\ cfg.maxChildren = 2
    /\ BagCardinality(expansions) = 2
    /\ CountExpansions(Attaching(Root)) = 1
    /\ Len(nodes[Root].children) = 2
    /\ nodes[Root].visits = 2

NoProposals == oracle = "proposeFails" \/ cfg.maxChildren = 0

\* C8: when every proposeActions call returns an empty sequence, the search
\* does not raise, root never has children and the search returns "".
C8_EmptyOracle ==
    NoProposals =>
        /\ main # "raised"
        /\ Started => Len(nodes[Root].children) = 0
        /\ main = "returned" => result = ""

C8_Witness ==
    /\ main = "returned"
    /\ oracle = "proposeFails"
    /\ cfg.numSimulations = 2
    /\ cfg.maxChildren = 2
    /\ nodes[Root].visits = 2
    /\ result = ""

\* C9: when every evaluate call fails (transport failure or unparseable
\* reply) the search does not raise, returns the action of a root child, and
\* every evaluation behind a backpropagated value is the neutral 0.5.
C9_DegradedOracle ==
    oracle = "evaluateFails" =>
        /\ main # "raised"
        /\ \A b \in BagToSet(backprops) :
              \A i \in 1..Len(b.evals) : b.evals[i] = Neutral
        /\ (main = "returned" /\ Len(nodes[Root].children) > 0) =>
              \E i \in 1..Len(nodes[Root].children) :
                  result = nodes[nodes[Root].children[i]].action

\* C10: at most one node holds a state of a given hash, the table maps the
\* hash to it, simulations that produce equal-hash states get that one node,
\* and its statistics count every backpropagation through it once.
C10_TranspositionDedup ==
    Started =>
        /\ \A m, n \in NodeIds :
              Hash(nodes[m].state) = Hash(nodes[n].state) => m = n
        /\ \A n \in NodeIds :
              /\ Hash(nodes[n].state) \in DOMAIN table
              /\ table[Hash(nodes[n].state)] = n
        /\ DOMAIN table = {Hash(nodes[n].state) : n \in NodeIds}
        /\ \A n \in NodeIds :
              /\ nodes[n].visits = CountCalls(CallsThrough(n))
              /\ nodes[n].totalValue = SumCalls(CallsThrough(n))

\* Two expansions of root produced the same state: one node, attached twice.
C10_Witness ==
    /\ main = "returned"
    /\ CountExpansions(Attaching(Root)) = 2
    /\ \E p, q \in 1..Len(nodes[Root].children) :
          p < q /\ nodes[Root].children[p] = nodes[Root].children[q]
    /\ nodes[Root].visits = 2

\* C11: the transposition table only grows: a hash that is mapped to a node
\* is mapped to the same node in every later state of the search.
C11_TableAdditive ==
    [][\A h \in DOMAIN table : h \in DOMAIN table' /\ table'[h] = table[h]]_vars

\* Two expansions of root, the second finding its states in the table; the
\* table holds root and two children.
C11_Witness ==
    /\ AllCompleted
    /\ CountExpansions(Attaching(Root)) = 2
    /\ Len(nodes[Root].children) = 4
    /\ Cardinality(DOMAIN table) = 3

\* visits, totalValue, raveVisits, raveValue of a node
Statistics(node) ==
    <<node.visits, node.totalValue, node.raveVisits, node.raveValue>>

\* C12: no step lowers a node's visit count, and a step that changes a
\* node's visit count, accumulated value or RAVE statistics is a
\* backpropagation; a node is created with all of them 0.
C12_StatisticsFrame ==
    [][/\ \A n \in NodeIds : nodes'[n].visits >= nodes[n].visits
       /\ (\E n \in NodeIds : Statistics(nodes'[n]) # Statistics(nodes[n]))
             => Backpropagate
       /\ \A n \in (1..Len(nodes')) \ NodeIds :
             Statistics(nodes'[n]) = <<0, 0, 0, 0>>]_vars

\* One simulation has backpropagated; the other has since expanded root
\* (finding its states in the table) and is in its rollout.
C12_Witness ==
    /\ Started
    /\ nodes[Root].visits = 1
    /\ nodes[Root].totalValue > 0
    /\ CountExpansions(Attaching(Root)) = 2
    /\ \E t \in BagToSet(tasks) : t.pc = "rolloutEval"

\* The same letter, in either case.
SameLetter(a, b) ==
    \/ a = b
    \/ \E i \in 1..Len(UpperCase) : {a, b} = {UpperCase[i], LowerCase[i]}

\* sub (in lower case) occurs in s, case ignored
ContainsIgnoreCase(s, sub) ==
    \E i \in 0..(Len(s) - Len(sub)) :
        \A j \in 1..Len(sub) : SameLetter(s[i + j], sub[j])

TerminalByText(state) ==
    \/ state.depth >= cfg.maxDepth
    \/ ContainsIgnoreCase(state.query, Goodbye)
    \/ ContainsIgnoreCase(state.query, ThankYou)

\* C13: isTerminal(state) holds exactly when state.depth >= maxDepth or the
\* query contains "goodbye" or "thank you", case ignored; and it is what
\* governs the search: a terminal root is never expanded, simulated or
\* backpropagated, a terminal node is never expanded, and a rollout asks for
\* candidates only from a non-terminal state.
C13_TerminalPredicate ==
    Started =>
        /\ \A n \in NodeIds :
              /\ IsTerminal(nodes[n].state, cfg.maxDepth)
                    <=> TerminalByText(nodes[n].state)
              /\ TerminalByText(nodes[n].state) =>
                    /\ ~nodes[n].isFullyExpanded
                    /\ Len(nodes[n].children) = 0
        /\ \A t \in BagToSet(tasks) :
              /\ t.pc \in {"rolloutGen", "rolloutEval", "rolloutScored"} =>
                    (IsTerminal(t.cur, cfg.maxDepth) <=> TerminalByText(t.cur))
              /\ t.pc = "rolloutGen" => ~TerminalByText(t.cur)
              /\ t.pc \in {"expandGen", "expandPriors", "expanded"} =>
                    ~TerminalByText(nodes[Last(t.path)].state)
        /\ TerminalByText(nodes[Root].state) =>
              /\ Len(nodes) = 1
              /\ BagCardinality(backprops) = 0
              /\ \A t \in BagToSet(tasks) : t.pc \in {"selected", "done"}

\* A prompt holding "Thank You" in mixed case is terminal at depth 0 under a
\* positive maxDepth: the search returns with root untouched.
C13_Witness ==
    /\ main = "returned"
    /\ cfg.query = <<"o","k"," ","T","h","a","n","k"," ","Y","o","u">>
    /\ cfg.maxDepth = 2
    /\ cfg.numSimulations = 2
    /\ Len(nodes) = 1
    /\ nodes[Root].visits = 0

\* What a rollout can draw in a state: the candidates `selectedActions`
\* holds when the task resumes with the oracle's reply.
RolloutDraws(t) ==
    UNION {LET got == GenerateActions(run)
           IN  {Widened(got.value, t.depth)[k] :
                   k \in 1..Len(Widened(got.value, t.depth))} :
           run \in ProposeRuns(oracle, cfg.maxChildren)}

\* The first text the stub proposes.
StubFirstAction ==
    (CHOOSE r \in ProposeReplies("stubAB", 1) : TRUE).text

\* C14: against the deterministic stub the returned action is a function of
\* the initial state and the configuration, and a rollout's draw is fixed
\* by the state of the search (which would hold the injected generator):
\* in no state can a rollout go on with either of two candidates.
C14_Determinism ==
    oracle = "stubAB" =>
        /\ main = "returned" =>
              result = IF RootTerminal \/ cfg.numSimulations = 0
                          \/ cfg.maxChildren = 0
                       THEN "" ELSE StubFirstAction
        /\ \A t \in BagToSet(tasks) :
              t.pc = "rolloutGen" => Cardinality(RolloutDraws(t)) <= 1

\* A reply to an evaluation request parses: three pieces, each a number.
ParsesAsScores(reply) ==
    /\ reply.ok
    /\ Len(reply.nums) = 3
    /\ \A i \in 1..3 : reply.nums[i] # NaN

\* A sub-score (in tenths) brought into [0, 1].
IntoUnit(x) == IF x < 0 THEN 0 ELSE IF x > 10 THEN 10 ELSE x

\* C15: whatever the oracle replies to an evaluation request, evaluate does
\* not raise and returns a number in [0, 1]: the weighted sum of the three
\* clamped sub-scores when the reply parses, and 0.5 when the request fails
\* or the reply does not parse; so every evaluation a rollout has
\* accumulated is in [0, 1].
C15_EvaluateTotal ==
    \A t \in BagToSet(tasks) :
        /\ \A i \in 1..Len(t.evals) : t.evals[i] \in 0..100
        /\ t.pc = "rolloutScored" => t.score \in 0..100
        /\ t.pc = "rolloutEval" =>
              \A reply \in EvaluateReplies(oracle, t.cur) :
                  LET got == Evaluate(reply, t.cur)
                  IN  /\ ~got.threw
                      /\ got.value[1] \in 0..100
                      /\ ParsesAsScores(reply) =>
                            got.value[1] = 3 * IntoUnit(reply.nums[1])
                                             + 4 * IntoUnit(reply.nums[2])
                                             + 3 * IntoUnit(reply.nums[3])
                      /\ ~ParsesAsScores(reply) => got.value[1] = Neutral

\* The priors are the uniform distribution over n candidates.
IsUniform(priors, n) ==
    /\ Len(priors) = n
    /\ \A i \in 1..n : priors[i].den # 0 /\ priors[i].num * n = priors[i].den

\* The priors sum to 1.
SumsToOne(priors) ==
    /\ \A i \in 1..Len(priors) :
          priors[i].den # 0 /\ priors[i].den = priors[1].den
    /\ Len(priors) > 0
    /\ SumSeq([i \in 1..Len(priors) |-> priors[i].num]) = priors[1].den

\* C16: whatever the oracle replies to a rating request, calculateActionPriors
\* does not raise and returns one probability per candidate, summing to 1;
\* it returns the uniform distribution when the request fails or the reply
\* holds a number of ratings other than the number of candidates; so every
\* prior stored for an action is a number.
C16_PriorsTotal ==
    /\ \A a \in DOMAIN actionPriors : actionPriors[a] # UndefinedPrior
    /\ \A t \in BagToSet(tasks) :
          t.pc = "expandPriors" =>
              \A reply \in PriorReplies(oracle, Len(t.actions)) :
                  LET got == CalculateActionPriors(reply, t.actions)
                  IN  /\ ~got.threw
                      /\ Len(got.value) = Len(t.actions)
                      /\ SumsToOne(got.value)
                      /\ (~reply.ok \/ Len(reply.nums) # Len(t.actions)) =>
                            IsUniform(got.value, Len(t.actions))

\* The step resumes task t, leaving it as u.
Resumes(t, u) ==
    /\ tasks (-) tasks' = SetToBag({t})
    /\ tasks' (-) tasks = SetToBag({u})

\* C17: no step changes an attribute of an existing state: the state of a
\* node stays as it was created, and the state a rollout holds when it
\* awaits its evaluation is the same, metrics included, when evaluate has
\* returned.
C17_StateImmutable ==
    [][/\ \A n \in NodeIds : nodes'[n].state = nodes[n].state
       /\ \A t \in BagToSet(tasks), u \in BagToSet(tasks') :
             (Resumes(t, u) /\ t.pc = "rolloutEval" /\ u.pc = "rolloutScored")
                => u.cur = t.cur]_vars

\* C18: once all simulations have completed, the first child of every node
\* that was expanded into children has been visited once for each of the
\* simulations that expanded the node.
C18_ExpandedOnPath ==
    AllCompleted =>
        \A n \in NodeIds :
            Attaching(n) # {} =>
                nodes[nodes[n].children[1]].visits
                    >= CountExpansions(Attaching(n))

\* Root first, each later node a child of the one before, no node twice.
PathWellFormed(path) ==
    /\ Len(path) >= 1
    /\ path[1] = Root
    /\ \A i \in 2..Len(path) :
          \E k \in 1..Len(nodes[path[i - 1]].children) :
              nodes[path[i - 1]].children[k] = path[i]
    /\ \A i, j \in 1..Len(path) : path[i] = path[j] => i = j

\* C19: in every state of a search, the path the simulations hold and the
\* path a call of select returns are well formed, and backpropagating the
\* latter adds exactly 1 to the visit count of each of its nodes.
C19_PathShape ==
    Started =>
        /\ \A t \in BagToSet(tasks) :
              t.pc \notin {"done", "rejected"} => PathWellFormed(t.path)
        /\ \A b \in BagToSet(backprops) : PathWellFormed(b.path)
        /\ SelectNow.ended =>
              /\ PathWellFormed(SelectNow.path)
              /\ \A n \in NodeIds :
                    OnPath(SelectNow.path, n) =>
                        BackpropagatePath(nodes, SelectNow.path, 0, cfg.useRAVE,
                                          Len(SelectNow.path))[n].visits
                            = nodes[n].visits + 1

\* Marked fully expanded with no children.
Barren(ns, n) == ns[n].isFullyExpanded /\ Len(ns[n].children) = 0

\* C20: a node marked fully expanded with no children stays so in every
\* later state, and no expand call on it receives candidates afterwards.
C20_BarrenStays ==
    [][\A n \in NodeIds :
          Barren(nodes, n) =>
              /\ Barren(nodes', n)
              /\ \A t \in BagToSet(tasks), u \in BagToSet(tasks') :
                    (Resumes(t, u) /\ t.pc = "expandGen")
                        => Last(t.path) # n]_vars

\* The discounted total of a rollout's evaluations: the k-th (k = 0, 1, ...)
\* weighs 0.95^k.
RECURSIVE DiscountedTotal(_, _)
DiscountedTotal(evals, k) ==
    IF k = Len(evals) THEN 0
    ELSE Add(Discounted(evals[k + 1], k), DiscountedTotal(evals, k + 1))

\* total / steps, or the total itself for no step
PerStep(total, steps) ==
    IF ~IsNum(total) THEN NaN
    ELSE IF steps = 0 THEN total ELSE total \div steps

\* The candidate lists generateActions can hand a rollout.
CandidateLists ==
    {GenerateActions(run).value : run \in ProposeRuns(oracle, cfg.maxChildren)}

\* C21: a rollout takes at most simulationDepth steps, asks for candidates
\* only from a non-terminal state (so no rollout state is deeper than
\* maxDepth), stops at the first step whose candidate list is empty, and
\* returns its discounted total divided by the number of steps it took (the
\* total, 0, for no step). The stop, for a rollout awaiting candidates at
\* any step: whatever list it can receive, an empty one makes it return,
\* with the evaluations it had and their discounted total per step, and a
\* non-empty one makes it evaluate a state one turn deeper whose last turn
\* is one of the candidates; every step that resumes it leaves it
\* returned or evaluating, with no evaluation added; and against an oracle
\* that gives no candidates it never evaluates.
C21_RolloutBounds ==
    /\ [](/\ \A t \in BagToSet(tasks) :
              /\ Len(t.evals) <= cfg.simulationDepth
              /\ t.pc \in {"rolloutGen", "rolloutEval", "rolloutScored"} =>
                    /\ t.depth = Len(t.evals)
                    /\ t.depth < cfg.simulationDepth
                    /\ t.cur.depth <= cfg.maxDepth
                    /\ t.value = DiscountedTotal(t.evals, 0)
              /\ t.pc = "rolloutGen" =>
                    /\ t.cur.depth < cfg.maxDepth
                    /\ \A actions \in CandidateLists :
                          \A u \in RolloutStep(t, actions) :
                              IF Len(actions) = 0
                              THEN /\ u.pc = "backprop"
                                   /\ u.evals = t.evals
                                   /\ u.value =
                                         PerStep(DiscountedTotal(t.evals, 0),
                                                 Len(t.evals))
                              ELSE /\ u.pc = "rolloutEval"
                                   /\ u.evals = t.evals
                                   /\ u.depth = t.depth
                                   /\ u.cur.depth = t.cur.depth + 1
                                   /\ \E i \in 1..Len(actions) :
                                         GetLastResponse(u.cur) = actions[i]
              /\ t.pc = "backprop" =>
                    t.value = PerStep(DiscountedTotal(t.evals, 0), Len(t.evals))
              /\ NoProposals =>
                    /\ t.pc \notin {"rolloutEval", "rolloutScored"}
                    /\ Len(t.evals) = 0
          /\ \A b \in BagToSet(backprops) :
              /\ Len(b.evals) <= cfg.simulationDepth
              /\ b.value = PerStep(DiscountedTotal(b.evals, 0), Len(b.evals))
              /\ Len(b.evals) = 0 => b.value = 0)
    /\ [][\A t \in BagToSet(tasks), u \in BagToSet(tasks') :
             (Resumes(t, u) /\ t.pc = "rolloutGen") =>
                /\ u.pc \in {"rolloutEval", "backprop"}
                /\ u.evals = t.evals
                /\ NoProposals => u.pc = "backprop"
                /\ u.pc = "backprop" =>
                      u.value = PerStep(DiscountedTotal(t.evals, 0),
                                        Len(t.evals))]_vars

\* A rollout of three steps, cut short of its four by a request that gave
\* no candidates, returned a third of its discounted total.
C21_Witness ==
    /\ main = "returned"
    /\ cfg.simulationDepth = WideDepth
    /\ cfg.maxDepth = WideDepth + 1
    /\ \E b \in BagToSet(backprops) :
          /\ Len(b.evals) = 3
          /\ b.evals[1] = 100 /\ b.evals[2] = 45 /\ b.evals[3] = Neutral
          /\ b.value > 0

\* max(1, floor(sqrt(k + 1))): the r >= 1 with r^2 <= k + 1 < (r + 1)^2
WidthAt(k) ==
    CHOOSE r \in 1..(k + 1) : r * r <= k + 1 /\ (r + 1) * (r + 1) > k + 1

\* The i-th text the stub proposes.
StubAction(i) == (CHOOSE r \in ProposeReplies("stubAB", i) : TRUE).text

\* The turns a rollout has added to the state of the node it started from.
RolloutTurns(t) ==
    SubSeq(t.cur.history, Len(nodes[t.node].state.history) + 1,
           Len(t.cur.history))

\* C22: the candidates a rollout draws from at step k are the first
\* max(1, floor(sqrt(k + 1))) the oracle returned for that step, or all of
\* them when it returned fewer; so against the stub the turn added at step
\* k is one of the stub's first max(1, floor(sqrt(k + 1))) proposals.
C22_ProgressiveWidening ==
    \A t \in BagToSet(tasks) :
        /\ t.pc = "rolloutGen" =>
              \A run \in ProposeRuns(oracle, cfg.maxChildren) :
                  LET got == GenerateActions(run).value
                      drawn == Widened(got, t.depth)
                  IN  /\ Len(drawn) <= WidthAt(t.depth)
                      /\ Len(drawn) <= Len(got)
                      /\ Len(got) > 0 => Len(drawn) >= 1
                      /\ \A k \in 1..Len(drawn) : drawn[k] = got[k]
        /\ t.pc \in {"rolloutGen", "rolloutEval", "rolloutScored"} =>
              \A k \in 0..(Len(RolloutTurns(t)) - 1) :
                  \E i \in 1..cfg.maxChildren :
                      /\ i <= WidthAt(k)
                      /\ RolloutTurns(t)[k + 1].content = StubAction(i)

\* A rollout whose fourth step (k = 3) drew the second of the two proposals.
C22_Witness ==
    \E t \in BagToSet(tasks) :
        /\ t.pc = "rolloutEval"
        /\ cfg.maxChildren = 2
        /\ Len(RolloutTurns(t)) = WideDepth
        /\ RolloutTurns(t)[WideDepth].content = "B"

\* C23: with useRAVE every node's RAVE visits and RAVE value equal its
\* visits and accumulated value in every state (backpropagation adds to
\* both, for the nodes of the path only); without it they stay 0.
C23_RaveBookkeeping ==
    Started =>
        \A n \in NodeIds :
            IF cfg.useRAVE
            THEN /\ nodes[n].raveVisits = nodes[n].visits
                 /\ nodes[n].raveValue = nodes[n].totalValue
                 /\ nodes[n].raveVisits = CountCalls(CallsThrough(n))
            ELSE nodes[n].raveVisits = 0 /\ nodes[n].raveValue = 0

\* Two backpropagations with useRAVE: root has two RAVE visits and a
\* positive RAVE value, its children none.
C23_Witness ==
    /\ AllCompleted
    /\ cfg.useRAVE
    /\ nodes[Root].raveVisits = 2
    /\ nodes[Root].raveValue > 0
    /\ Len(nodes) >= 2
    /\ nodes[2].raveVisits = 0

\* C27: in every state every node's child list has at most maxChildren
\* entries, and no node twice.
C27_BranchingBound ==
    Started =>
        \A n \in NodeIds :
            /\ Len(nodes[n].children) <= cfg.maxChildren
            /\ \A i, j \in 1..Len(nodes[n].children) :
                  nodes[n].children[i] = nodes[n].children[j] => i = j

\* C28: every simulation was started, and its selection completed, on the
\* tree that holds the unexpanded root alone: there are numSimulations
\* simulations, the path of each is [root], no marker is set, every
\* expansion is one of root, and when root is not terminal every
\* simulation makes its own expand call on root.
C28_SelectsFirst ==
    Started =>
        /\ BagCardinality(tasks) = cfg.numSimulations
        /\ inProgress = {}
        /\ \A t \in BagToSet(tasks) :
              t.pc \notin {"done", "rejected"} => t.path = <<Root>>
        /\ \A b \in BagToSet(backprops) : b.path = <<Root>>
        /\ \A e \in BagToSet(expansions) : e.node = Root
        /\ (AllCompleted /\ ~RootTerminal) =>
              BagCardinality(expansions) = cfg.numSimulations

\* Two simulations, both with path [root], each made its own expansion of
\* root, the second after the first had attached children.
C28_Witness ==
    /\ AllCompleted
    /\ cfg.numSimulations = 2
    /\ CountExpansions(Attaching(Root)) = 2
    /\ \A b \in BagToSet(backprops) : b.path = <<Root>>
    /\ BagCardinality(backprops) = 2

\* C29: every node in the child list of a node n has n as its parent, the
\* last turn of its state as its action, and a state one deeper than n's.
C29_TreeShape ==
    Started =>
        \A n \in NodeIds :
            \A i \in 1..Len(nodes[n].children) :
                LET c == nodes[nodes[n].children[i]]
                IN  /\ c.parent = n
                    /\ c.action = GetLastResponse(c.state)
                    /\ c.state.depth = nodes[n].state.depth + 1
                    /\ c.state.history
                          = Append(nodes[n].state.history,
                                   [role |-> "assistant", content |-> c.action])

\* A child attached again by a second expansion, found in the table.
C29_Witness ==
    /\ Started
    /\ cfg.maxChildren = 1
    /\ Len(nodes) = 2
    /\ nodes[Root].children = <<2, 2>>
    /\ nodes[2].parent = Root
    /\ nodes[2].state.depth = 1

\* The nodes a call of select in the current state descends from: those of
\* its path but the last.
Descended ==
    {SelectNow.path[i] : i \in 1..(Len(SelectNow.path) - 1)}

\* The <<parent, child, prior>> for which that call evaluates getPUCTScore
\* (reduce calls its function for a list of two or more).
Scored ==
    UNION {{<<p, nodes[p].children[i],
              PriorOf(actionPriors, nodes[nodes[p].children[i]].action,
                      Len(nodes[p].children))>> :
               i \in 1..Len(nodes[p].children)} :
           p \in {q \in Descended : Len(nodes[q].children) >= 2}}

\* c * prior * sqrt(parentVisits) / (1 + childVisits) in thousandths, for a
\* constant c given in halves
ExplorationWith(c, prior, parentVisits, childVisits) ==
    (c * prior.num * SqrtMilli(parentVisits))
        \div (2 * prior.den * (1 + childVisits))

\* C24: for every child select scores, the exploration term is the one
\* computed with the configured options.explorationConstant.
C24_ConfiguredExploration ==
    Started =>
        \A x \in Scored :
            Exploration(nodes[x[2]], nodes[x[1]].visits, x[3])
                = ExplorationWith(cfg.explorationConstant, x[3],
                                  nodes[x[1]].visits, nodes[x[2]].visits)

\* The child visit counts the exploration term is compared over.
VisitCounts == 0..MaxSims

\* The exploration term of child x at v + 1 visits is below that at v.
Decreases(x, v) ==
    Exploration([nodes[x[2]] EXCEPT !.visits = v + 1], nodes[x[1]].visits, x[3])
        < Exploration([nodes[x[2]] EXCEPT !.visits = v], nodes[x[1]].visits, x[3])

\* C25 as stated: for every parentVisits and prior select scores a child
\* with, the exploration term is strictly smaller at v + 1 child visits
\* than at v.
C25_Original ==
    Started => \A x \in Scored : \A v \in VisitCounts : Decreases(x, v)

\* C25, amended: it is strictly smaller whenever parentVisits >= 1 (the
\* prior select uses is always positive); at parentVisits = 0 the term is 0
\* for every v.
C25_ExplorationDecreases ==
    Started =>
        \A x \in Scored :
            /\ x[3].num > 0 /\ x[3].den > 0
            /\ \A v \in VisitCounts :
                  IF nodes[x[1]].visits >= 1
                  THEN Decreases(x, v)
                  ELSE Exploration([nodes[x[2]] EXCEPT !.visits = v],
                                   nodes[x[1]].visits, x[3]) = 0

\* Select scores two different children of a root that has been visited.
C25_Witness ==
    /\ Started
    /\ nodes[Root].visits >= 1
    /\ \E x, y \in Scored : x[1] = Root /\ y[1] = Root /\ x[2] # y[2]
    /\ \A x \in Scored : Decreases(x, 0)

\* C26: an expansion records for each candidate the prior
\* calculateActionPriors returned for it, selection scores a child with
\* the prior recorded for it, and no later expansion changes a recorded
\* prior.
C26_PriorsPerChild ==
    /\ [](\A t \in BagToSet(tasks) :
            t.pc = "expandPriors" =>
                \A reply \in PriorReplies(oracle, Len(t.actions)) :
                    LET got == CalculateActionPriors(reply, t.actions).value
                        s == AttachAll([nodes |-> nodes, table |-> table,
                                        priors |-> actionPriors],
                                       Last(t.path), t.actions, got, 1)
                    IN  \A i \in 1..Len(t.actions) :
                            i <= Len(got) =>
                                PriorOf(s.priors, t.actions[i],
                                        Len(s.nodes[Last(t.path)].children))
                                    = got[i])
    /\ [][\A a \in DOMAIN actionPriors :
              a \in DOMAIN actionPriors' /\ actionPriors'[a] = actionPriors[a]]_vars

\* C30: for every child select scores, the denominator of beta is positive
\* and the score is a number.
C30_BetaDefined ==
    Started =>
        \A x \in Scored :
            /\ BetaDenominator(nodes[x[2]], nodes[x[1]].visits, x[3]) > 0
            /\ IsNum(GetPUCTScore(nodes[x[2]], nodes[x[1]].visits, x[3]))

====
